---- MODULE Spec2Model ----
(***************************************************************************)
(* A model of @adrocodes/pigeon (src/index.ts): createRegistration, the    *)
(* registry kept by createPigeon (a JavaScript Map, which iterates in      *)
(* insertion order), and the scope handle with query(), fragments() and    *)
(* validate().                                                             *)
(*                                                                         *)
(* Strings are sequences of tokens, so that template literals are          *)
(* concatenations and Array.join is a concatenation with separators.       *)
(* A value that may be undefined is a sequence of length 0 or 1.           *)
(***************************************************************************)
EXTENDS Naturals, Sequences, FiniteSets

VARIABLES components, handle, out, latest, given, val, other

vars == <<components, handle, out, latest, given, val, other>>

(***************************************************************************)
(* Input domains                                                           *)
(***************************************************************************)

Typenames == {"Hero", "Image", "Text"}

Scopes == {"page", "article"}

\* The typename after t in the fixed round Hero -> Image -> Text -> Hero.
Succ(t) == CASE t = "Hero" -> "Image" [] t = "Image" -> "Text" [] OTHER -> "Hero"

\* Dependency lists tried for the component t: none, one, two different ones,
\* the same one twice, and t itself.  Over the three typenames these build
\* chains, diamonds, duplicates, self-dependencies and cycles; a dependency
\* on a typename nobody registered arises whenever that typename is absent.
DepLists(t) ==
  { <<>>, <<Succ(t)>>, <<Succ(t), Succ(Succ(t))>>, <<Succ(t), Succ(t)>>, <<t>> }

ScopeLists == { <<>>, <<"page">>, <<"page", "article">> }

Range(s) == { s[i] : i \in DOMAIN s }

(***************************************************************************)
(* Strings                                                                 *)
(***************************************************************************)

RECURSIVE Join(_, _)
\* Array.prototype.join: the elements of lines with sep between them.
Join(lines, sep) ==
  IF Len(lines) = 0 THEN <<>>
  ELSE IF Len(lines) = 1 THEN lines[1]
  ELSE lines[1] \o <<sep>> \o Join(Tail(lines), sep)

\* String.prototype.includes / toContain: part occurs in text.
Contains(text, part) ==
  \E i \in 1..(Len(text) + 1) :
     /\ i + Len(part) - 1 <= Len(text)
     /\ \A k \in 1..Len(part) : text[i + k - 1] = part[k]

(***************************************************************************)
(* Map<Typename, RegistrationStruct>: a sequence of entries in insertion   *)
(* order, at most one per key.                                             *)
(***************************************************************************)

MapKeys(m) == { m[i].key : i \in DOMAIN m }

MapHas(m, k) == k \in MapKeys(m)

\* Map.prototype.get: <<v>> when k is a key, <<>> (undefined) otherwise.
MapGet(m, k) ==
  IF MapHas(m, k)
  THEN << m[CHOOSE i \in DOMAIN m : m[i].key = k].value >>
  ELSE <<>>

\* A list in place of the Map: every set adds an entry, also for a key that is
\* already there.
MapSetPush(m, k, v) == Append(m, [key |-> k, value |-> v])

\* Map.prototype.set: an existing key keeps its place and takes the new
\* value; a new key goes to the end.
MapSet(m, k, v) ==
  IF MapHas(m, k)
  THEN [ i \in DOMAIN m |-> IF m[i].key = k THEN [key |-> k, value |-> v] ELSE m[i] ]
  ELSE Append(m, [key |-> k, value |-> v])

\* Map.prototype.values, in insertion order.
MapValues(m) == [ i \in DOMAIN m |-> m[i].value ]

(***************************************************************************)
(* createRegistration                                                      *)
(***************************************************************************)

\* `${payload.__typename}Fragment`
GeneratedFragmentName(payload) == << payload.__typename, "Fragment" >>

\* payload.fragment as it came, without the definition around it.
SelectionOnly(fragmentName, payload) == payload.fragment

\* `fragment ${fragmentName} on ${payload.__typename} {${payload.fragment}}`
WrapFragment(fragmentName, payload) ==
  <<"fragment ">> \o fragmentName \o <<" on ", payload.__typename, " {">>
     \o payload.fragment \o <<"}">>

\* []: the empty list whatever x is.
AlwaysEmpty(x) == <<>>

\* x || []: an undefined x gives the empty list, a list (empty or not) is kept.
OrEmpty(x) == IF Len(x) = 0 THEN <<>> ELSE x[1]

createRegistration(payload) ==
  LET fragmentName == GeneratedFragmentName(payload)
      fragment == WrapFragment(fragmentName, payload)
  IN [ __typename |-> payload.__typename,
       dependencies |-> OrEmpty(payload.dependencies),
       fragment |-> fragment,
       fragmentName |-> fragmentName,
       schema |-> payload.schema,
       scope |-> OrEmpty(payload.scope) ]

(***************************************************************************)
(* recursivelyCollectFragments                                             *)
(*                                                                         *)
(* The function has no visited set: it recurses into every registered      *)
(* dependency, every time.  A call whose value is already on the call      *)
(* stack repeats the same descent for ever (the descent depends only on    *)
(* components and value), so the JavaScript engine ends it with a          *)
(* RangeError (maximum call stack size exceeded), reported here as         *)
(* ok = FALSE.                                                             *)
(***************************************************************************)

RECURSIVE recursivelyCollectFragments(_, _, _, _)
RECURSIVE CollectDependencies(_, _, _, _, _)

\* The walk on a call stack that holds two frames only.
ShallowCollect(comps, value, collected, stack) ==
  IF value \in Range(stack) \/ Len(stack) >= 2
  THEN [ok |-> FALSE, map |-> collected]
  ELSE CollectDependencies(comps, value, 1,
                           MapSet(collected, value.__typename, value),
                           Append(stack, value))

recursivelyCollectFragments(comps, value, collected, stack) ==
  IF value \in Range(stack)
  THEN [ok |-> FALSE, map |-> collected]
  ELSE CollectDependencies(comps, value, 1,
                           MapSet(collected, value.__typename, value),
                           Append(stack, value))

RECURSIVE CollectStrict(_, _, _, _, _)
\* The loop without `if (next)`: it descends into components.get(...) as
\* it comes, and reading __typename of undefined throws.
CollectStrict(comps, value, i, collected, stack) ==
  IF i > Len(value.dependencies)
  THEN [ok |-> TRUE, map |-> collected]
  ELSE LET next == MapGet(comps, value.dependencies[i])
       IN IF Len(next) = 0
          THEN [ok |-> FALSE, map |-> collected]
          ELSE LET r == recursivelyCollectFragments(comps, next[1], collected, stack)
               IN IF r.ok
                  THEN CollectStrict(comps, value, i + 1, r.map, stack)
                  ELSE r

\* The for loop over value.dependencies, from index i on.
CollectDependencies(comps, value, i, collected, stack) ==
  IF i > Len(value.dependencies)
  THEN [ok |-> TRUE, map |-> collected]
  ELSE LET next == MapGet(comps, value.dependencies[i])
       IN IF Len(next) = 0
          THEN CollectDependencies(comps, value, i + 1, collected, stack)
          ELSE LET r == recursivelyCollectFragments(comps, next[1], collected, stack)
               IN IF r.ok
                  THEN CollectDependencies(comps, value, i + 1, r.map, stack)
                  ELSE r

(***************************************************************************)
(* createPigeon: the scope handle                                          *)
(***************************************************************************)

\* value.scope[0] === scope: only the first scope of the list counts.
ScopeIncludesFirst(value, s) == Len(value.scope) > 0 /\ value.scope[1] = s

\* value.scope.includes(scope)
ScopeIncludes(value, s) == s \in Range(value.scope)

RECURSIVE ScopedFrom(_, _, _, _)
\* components.forEach from entry i on, filling scopedComponents.
ScopedFrom(comps, i, s, scopedComponents) ==
  IF i > Len(comps) THEN scopedComponents
  ELSE LET value == comps[i].value
       IN ScopedFrom(comps, i + 1, s,
             IF ScopeIncludes(value, s)
             THEN MapSet(scopedComponents, value.__typename, value)
             ELSE scopedComponents)

ScopedComponents(comps, s) == ScopedFrom(comps, 1, s, <<>>)

\* `...on ${key} { ...${key} }`: the typename spread in place of the fragment name.
QueryLineKey(entry) == <<"...on ", entry.key, " { ...", entry.key, " }">>

\* `...on ${key} { ...${value.fragmentName} }`
QueryLine(entry) ==
  <<"...on ", entry.key, " { ...">> \o entry.value.fragmentName \o <<" }">>

\* query(): one line per entry of scopedComponents, joined by "\n".
QueryText(scopedComponents) ==
  Join([ i \in DOMAIN scopedComponents |-> QueryLine(scopedComponents[i]) ], "\n")

RECURSIVE CollectScoped(_, _, _, _)
\* The loop of fragments() over scopedComponents.values(), from index i on.
CollectScoped(comps, values, i, map) ==
  IF i > Len(values) THEN [ok |-> TRUE, map |-> map]
  ELSE LET r == recursivelyCollectFragments(comps, values[i], map, <<>>)
       IN IF r.ok THEN CollectScoped(comps, values, i + 1, r.map) ELSE r

\* fragments() walking from every registered component, scoped or not.
FragmentsOfRegistry(comps, scopedComponents) ==
  LET r == CollectScoped(comps, MapValues(comps), 1, <<>>)
      values == MapValues(r.map)
  IN IF r.ok
     THEN [threw |-> FALSE,
           text |-> Join([ i \in DOMAIN values |-> values[i].fragment ], "\n")]
     ELSE [threw |-> TRUE, text |-> <<>>]

\* fragments(): the fragment of every collected registration, joined by
\* "\n"; threw = TRUE when the collection ran out of stack.
FragmentsResult(comps, scopedComponents) ==
  LET r == CollectScoped(comps, MapValues(scopedComponents), 1, <<>>)
      values == MapValues(r.map)
  IN IF r.ok
     THEN [threw |-> FALSE,
           text |-> Join([ i \in DOMAIN values |-> values[i].fragment ], "\n")]
     ELSE [threw |-> TRUE, text |-> <<>>]

(***************************************************************************)
(* Payloads given to createRegistration                                    *)
(***************************************************************************)

\* The inner selection a component with these dependencies writes: its own
\* field and a spread of each dependency's fragment, as in
\* `title image { ...${Image.fragmentName} }`.
Body(deps) ==
  <<"title">> \o Join([ i \in DOMAIN deps |-> <<" ...", deps[i], "Fragment">> ], "")

\* A zod schema is a value of the external library: it has an identity and
\* accepts the records of one shape.
SchemaOf(t, shape) == [ name |-> <<t, shape>>, accepts |-> shape ]

\* dependencies and scope may be left out of a payload (undefined).
PayloadsOf(t) ==
  { [ __typename |-> t, fragment |-> Body(OrEmpty(d)), schema |-> SchemaOf(t, 1),
      dependencies |-> d, scope |-> s ] :
      d \in {<<>>} \cup { <<l>> : l \in DepLists(t) },
      s \in {<<>>} \cup { <<l>> : l \in ScopeLists } }

Payloads == UNION { PayloadsOf(t) : t \in Typenames }

(***************************************************************************)
(* State                                                                   *)
(*   components  the Map of the pigeon instance                            *)
(*   handle      the object returned by the last scope() call, and the     *)
(*               registry as it was when scope() ran (taken)               *)
(*   out         the last call and what it returned                        *)
(*   latest      per typename, the registration last passed to register    *)
(*   given       per typename, the fragment names passed to register       *)
(*   val         the validate() call in progress, and the order in which   *)
(*               its parseAsync promises settled (order)                   *)
(*   other       a second instance, once createPigeon() is called again:   *)
(*               its own Map and the handle of its last scope() call       *)
(***************************************************************************)

NoHandle == [ live |-> FALSE, scope |-> "", components |-> <<>>, taken |-> <<>> ]

NoValidation ==
  [ state |-> "idle", data |-> <<>>, promises |-> <<>>, value |-> <<>>, order |-> <<>> ]

Returned(op, text) == [ op |-> op, threw |-> FALSE, text |-> text ]

\* The object createPigeon() returned; register is called as its method, so
\* it is the `this` of the call.
ThisPigeon == "pigeon"

\* The object a second createPigeon() call returns.
OtherPigeon == "other pigeon"

\* No second instance yet.
NoPigeon == [ made |-> FALSE, components |-> <<>>, handle |-> NoHandle ]

Init ==
  /\ components = <<>>
  /\ handle = NoHandle
  /\ out = Returned("createPigeon", <<>>)
  /\ latest = [ t \in Typenames |-> <<>> ]
  /\ given = [ t \in Typenames |-> {} ]
  /\ val = NoValidation
  /\ other = NoPigeon

\* A registry that keeps the first registration of a typename.
SetIfAbsent(comps, component) ==
  IF MapHas(comps, component.__typename) THEN comps
  ELSE MapSet(comps, component.__typename, component)

\* A register that starts the Map afresh: only the new component is kept.
SetAlone(comps, component) == MapSet(<<>>, component.__typename, component)

\* components.set(component.__typename, component)
SetComponent(comps, component) == MapSet(comps, component.__typename, component)

\* register(component): the registry takes the component; returns this.
register(component) ==
  /\ components' = SetComponent(components, component)
  /\ out' = [ op |-> "register", threw |-> FALSE, text |-> <<>>, returned |-> ThisPigeon ]
  /\ latest' = [ latest EXCEPT ![component.__typename] = <<component>> ]
  /\ given' = [ given EXCEPT ![component.__typename] = @ \cup {component.fragmentName} ]
  /\ UNCHANGED <<handle, val, other>>

\* scope(s): the handle holds its own Map, filled from components now.
scope(s) ==
  /\ handle' = [ live |-> TRUE, scope |-> s,
                 components |-> ScopedComponents(components, s),
                 taken |-> components ]
  /\ out' = Returned("scope", <<>>)
  /\ UNCHANGED <<components, latest, given, val, other>>

query ==
  /\ handle.live
  /\ out' = Returned("query", QueryText(handle.components))
  /\ UNCHANGED <<components, handle, latest, given, val, other>>

\* fragments() collecting into scopedComponents itself instead of a Map of
\* its own: the dependencies it finds stay in the handle.
fragmentsIntoScoped ==
  /\ handle.live
  /\ LET r == CollectScoped(components, MapValues(handle.components), 1, handle.components)
         values == MapValues(r.map)
     IN /\ out' = [ op |-> "fragments", threw |-> ~r.ok,
                    text |-> IF r.ok
                             THEN Join([ i \in DOMAIN values |-> values[i].fragment ], "\n")
                             ELSE <<>> ]
        /\ handle' = [ handle EXCEPT !.components = r.map ]
  /\ UNCHANGED <<components, latest, given, val, other>>

fragments ==
  /\ handle.live
  /\ LET r == FragmentsResult(components, handle.components)
     IN out' = [ op |-> "fragments", threw |-> r.threw, text |-> r.text ]
  /\ UNCHANGED <<components, handle, latest, given, val, other>>

(***************************************************************************)
(* Spec: the components are registered first, then a scope is taken and    *)
(* used (any number of times, for any scope).                              *)
(***************************************************************************)

Setup == handle = NoHandle /\ \E p \in Payloads : register(createRegistration(p))

TakeScope == \E s \in Scopes : scope(s)

Next == Setup \/ TakeScope \/ query \/ fragments

Spec == Init /\ [][Next]_vars

(***************************************************************************)
(* validate                                                                *)
(***************************************************************************)

Shapes == {1, 2}

\* The records a CMS may return: a typename and the shape of the rest.
Records == [ __typename : Typenames, shape : Shapes ]

\* What component.schema.parseAsync(value) settles to: the transformed
\* record when the schema accepts the value, a ZodError otherwise.
ParseOutcome(schema, value) ==
  IF value.shape = schema.accepts
  THEN [ state |-> "fulfilled", kind |-> "output", schema |-> schema.name, input |-> value ]
  ELSE [ state |-> "rejected", kind |-> "ZodError", schema |-> schema.name, input |-> value ]

\* scopedComponents.get(value.__typename), keyed by the first scoped
\* component whatever the record is.
LookupFirst(scopedComponents, value) ==
  IF MapHas(scopedComponents, value.__typename)
  THEN << scopedComponents[1].value >>
  ELSE <<>>

\* A handle that is a view of the registry: the component is looked up
\* among the components that are in the scope of the handle now.
LookupLive(scopedComponents, value) ==
  MapGet(ScopedComponents(components, handle.scope), value.__typename)

\* scopedComponents.get(value.__typename)
LookupComponent(scopedComponents, value) == MapGet(scopedComponents, value.__typename)

RECURSIVE PromisesStopAtMissing(_, _, _, _)
\* The loop of validate() leaving at the first record without a component.
PromisesStopAtMissing(scopedComponents, data, i, validationPromises) ==
  IF i > Len(data) THEN validationPromises
  ELSE LET component == LookupComponent(scopedComponents, data[i])
       IN IF Len(component) = 0 THEN validationPromises
          ELSE PromisesStopAtMissing(scopedComponents, data, i + 1,
                  Append(validationPromises,
                         [ input |-> data[i], schema |-> component[1].schema, state |-> "pending" ]))

RECURSIVE PromisesUntilFailure(_, _, _, _)
\* validate() awaiting each parseAsync inside the loop: the records after
\* the first one its schema rejects are never parsed.
PromisesUntilFailure(scopedComponents, data, i, validationPromises) ==
  IF i > Len(data) THEN validationPromises
  ELSE LET component == LookupComponent(scopedComponents, data[i])
       IN IF Len(component) = 0
          THEN PromisesUntilFailure(scopedComponents, data, i + 1, validationPromises)
          ELSE LET promise == [ input |-> data[i], schema |-> component[1].schema,
                                state |-> "pending" ]
               IN IF ParseOutcome(promise.schema, promise.input).state = "rejected"
                  THEN Append(validationPromises, promise)
                  ELSE PromisesUntilFailure(scopedComponents, data, i + 1,
                                            Append(validationPromises, promise))

RECURSIVE ValidationPromises(_, _, _, _)
\* The loop of validate() over data, from index i on: one pending
\* parseAsync promise per record that has a component in the scope.
ValidationPromises(scopedComponents, data, i, validationPromises) ==
  IF i > Len(data) THEN validationPromises
  ELSE LET component == LookupComponent(scopedComponents, data[i])
       IN ValidationPromises(scopedComponents, data, i + 1,
             IF Len(component) = 0 THEN validationPromises
             ELSE Append(validationPromises,
                         [ input |-> data[i], schema |-> component[1].schema, state |-> "pending" ]))

\* Promise.all that forgets the rejections: it fulfils with the outputs of
\* the promises that were fulfilled.
PromiseAllFulfilledOnly(current, promises, i) ==
  IF \A k \in DOMAIN promises : promises[k].state # "pending"
  THEN [ state |-> "fulfilled",
         value |-> SelectSeq([ k \in DOMAIN promises |->
                                 ParseOutcome(promises[k].schema, promises[k].input) ],
                             LAMBDA o : o.state = "fulfilled") ]
  ELSE current

\* Promise.all collecting the outputs as they come: in the order in which
\* the promises were fulfilled.
PromiseAllAsSettled(current, promises, i) ==
  IF current.state # "pending" THEN current
  ELSE IF promises[i].state = "rejected"
  THEN [ state |-> "rejected", value |-> <<ParseOutcome(promises[i].schema, promises[i].input)>> ]
  ELSE [ state |-> IF \A k \in DOMAIN promises : promises[k].state = "fulfilled"
                   THEN "fulfilled" ELSE "pending",
         value |-> Append(current.value, ParseOutcome(promises[i].schema, promises[i].input)) ]

\* Promise.all, when promise i of promises has just settled: it rejects with
\* the first rejection, and fulfils with all the outputs, in the order of the
\* promises, once every promise is fulfilled.  current is its state so far.
PromiseAll(current, promises, i) ==
  IF current.state # "pending" THEN current
  ELSE IF promises[i].state = "rejected"
  THEN [ state |-> "rejected", value |-> <<ParseOutcome(promises[i].schema, promises[i].input)>> ]
  ELSE IF \A k \in DOMAIN promises : promises[k].state = "fulfilled"
  THEN [ state |-> "fulfilled",
         value |-> [ k \in DOMAIN promises |->
                       ParseOutcome(promises[k].schema, promises[k].input) ] ]
  ELSE current

\* validate(data) up to its await: the promises are created; Promise.all of
\* no promise at all fulfils with the empty list.
validate(data) ==
  /\ handle.live
  /\ val.state # "pending"
  /\ LET promises == ValidationPromises(handle.components, data, 1, <<>>)
     IN val' = [ state |-> IF Len(promises) = 0 THEN "fulfilled" ELSE "pending",
                 data |-> data, promises |-> promises, value |-> <<>>, order |-> <<>> ]
  /\ out' = Returned("validate", <<>>)
  /\ UNCHANGED <<components, handle, latest, given, other>>

\* One parseAsync promise settles; Promise.all, and with it the promise
\* validate() returned, follows.
settle(i) ==
  /\ val.state = "pending" \/ val.state = "rejected"
  /\ i \in DOMAIN val.promises
  /\ val.promises[i].state = "pending"
  /\ LET outcome == ParseOutcome(val.promises[i].schema, val.promises[i].input)
         promises == [ val.promises EXCEPT ![i].state = outcome.state ]
         all == PromiseAll([ state |-> val.state, value |-> val.value ], promises, i)
     IN val' = [ val EXCEPT !.promises = promises, !.state = all.state, !.value = all.value,
                            !.order = Append(@, i) ]
  /\ UNCHANGED <<components, handle, out, latest, given, other>>

(***************************************************************************)
(* SpecValidate: components in two variants each are registered, a scope   *)
(* is taken and read, and then one batch of records is validated; its      *)
(* promises settle in any order.                                           *)
(***************************************************************************)

MaxData == 2

Batches == UNION { [ 1..n -> Records ] : n \in 0..MaxData }

\* The selection and schema of a component written the usual way; every
\* component of this specification lists the scope "page".
VariantPayloads ==
  { [ __typename |-> t, fragment |-> <<"title">>, schema |-> SchemaOf(t, 1),
      dependencies |-> <<>>, scope |-> <<l>> ] :
      t \in {"Hero", "Image"}, l \in { <<"page">>, <<"page", "article">> } }

\* A RegistrationStruct written by hand for the typename of c: another
\* fragment name, another selection and another schema.
Alternative(c) ==
  [ c EXCEPT !.fragmentName = <<"Alt", c.__typename>>,
             !.fragment = <<"fragment ", "Alt", c.__typename, " on ", c.__typename, " {",
                            "heading", "}">>,
             !.schema = SchemaOf(c.__typename, 2) ]

VariantComponents ==
  LET made == { createRegistration(p) : p \in VariantPayloads }
  IN made \cup { Alternative(c) : c \in made }

SetupVariant == handle = NoHandle /\ \E c \in VariantComponents : register(c)

\* The scope is taken and read before the batch is validated.
ScopeBefore == val.state = "idle" /\ TakeScope

QueryBefore == val.state = "idle" /\ query

FragmentsBefore == val.state = "idle" /\ fragments

Validate == val.state = "idle" /\ \E data \in Batches : validate(data)

Settle == \E i \in 1..MaxData : settle(i)

NextValidate ==
  SetupVariant \/ ScopeBefore \/ QueryBefore \/ FragmentsBefore \/ Validate \/ Settle

SpecValidate == Init /\ [][NextValidate]_vars

(***************************************************************************)
(* SpecLive: register, scope, query and fragments are called in any order, *)
(* so that a handle can be older than the registry; then one batch is      *)
(* validated through the last handle.                                      *)
(***************************************************************************)

\* Hero lists Image, and the scope "page" or the scope "article"; Image
\* comes with the scope "page" and with no scope.
LivePayloads ==
  { [ __typename |-> "Hero", fragment |-> Body(<<"Image">>), schema |-> SchemaOf("Hero", 1),
      dependencies |-> << <<"Image">> >>, scope |-> << <<s>> >> ] : s \in Scopes }
  \cup
  { [ __typename |-> "Image", fragment |-> <<"title">>, schema |-> SchemaOf("Image", 1),
      dependencies |-> <<>>, scope |-> s ] : s \in { <<>>, << <<"page">> >> } }

\* Each of them as createRegistration makes it and as written by hand.
LiveComponents ==
  LET made == { createRegistration(p) : p \in LivePayloads }
  IN made \cup { Alternative(c) : c \in made }

\* A Hero record and an Image record, in either order and of either shape.
LiveBatches ==
  LET heroes == { r \in Records : r.__typename = "Hero" }
      images == { r \in Records : r.__typename = "Image" }
  IN { <<h, i>> : h \in heroes, i \in images } \cup { <<i, h>> : h \in heroes, i \in images }

RegisterLive == val.state = "idle" /\ \E c \in LiveComponents : register(c)

ValidateLive == val.state = "idle" /\ \E data \in LiveBatches : validate(data)

NextLive ==
  RegisterLive \/ ScopeBefore \/ QueryBefore \/ FragmentsBefore \/ ValidateLive \/ Settle

SpecLive == Init /\ [][NextLive]_vars

(***************************************************************************)
(* SpecInstances: createPigeon() is called a second time, and components   *)
(* are registered with, and scopes taken of, either instance in any order. *)
(***************************************************************************)

\* createPigeon(): a new object around a `new Map()` of its own.
createPigeon ==
  /\ ~other.made
  /\ other' = [ made |-> TRUE, components |-> <<>>, handle |-> NoHandle ]
  /\ out' = [ op |-> "createPigeon", threw |-> FALSE, text |-> <<>>, returned |-> OtherPigeon ]
  /\ UNCHANGED <<components, handle, latest, given, val>>

\* register on instances that share one Map of the module: the component
\* goes into the registry of both.
registerShared(component) ==
  /\ other.made
  /\ other' = [ other EXCEPT !.components = SetComponent(@, component) ]
  /\ components' = SetComponent(components, component)
  /\ out' = [ op |-> "register", threw |-> FALSE, text |-> <<>>, returned |-> OtherPigeon ]
  /\ UNCHANGED <<handle, latest, given, val>>

\* register(component) called on the second instance.
registerOther(component) ==
  /\ other.made
  /\ other' = [ other EXCEPT !.components = SetComponent(@, component) ]
  /\ out' = [ op |-> "register", threw |-> FALSE, text |-> <<>>, returned |-> OtherPigeon ]
  /\ UNCHANGED <<components, handle, latest, given, val>>

\* scope(s) called on the second instance.
scopeOther(s) ==
  /\ other.made
  /\ other' = [ other EXCEPT !.handle = [ live |-> TRUE, scope |-> s,
                                          components |-> ScopedComponents(other.components, s),
                                          taken |-> other.components ] ]
  /\ out' = [ op |-> "scope", threw |-> FALSE, text |-> <<>>, returned |-> OtherPigeon ]
  /\ UNCHANGED <<components, handle, latest, given, val>>

\* The generated Hero and Image of the scope "page", and Hero by hand.
InstanceComponents ==
  { c \in LiveComponents :
      /\ c.scope = <<"page">>
      /\ c.__typename = "Image" => c.fragmentName = <<"Image", "Fragment">> }

RegisterFirst == \E c \in InstanceComponents : register(c)

RegisterOther == \E c \in InstanceComponents : registerOther(c)

ScopeOther == \E s \in Scopes : scopeOther(s)

NextInstances ==
  createPigeon \/ RegisterFirst \/ RegisterOther \/ TakeScope \/ ScopeOther
    \/ query \/ fragments

SpecInstances == Init /\ [][NextInstances]_vars

(***************************************************************************)
(* SpecRegistration: createRegistration is called on payloads of every     *)
(* kind, among them payloads that carry a fragmentName (a property the     *)
(* type CreateRegistrationStruct leaves out, and which a caller of the     *)
(* compiled JavaScript can still pass).                                    *)
(***************************************************************************)

\* The fragmentName property of a payload: absent, or one of two names.
FragmentNameChoices ==
  { <<>>, << <<"CustomHeroFragment">> >>, << <<"Custom", "Fragment">> >> }

\* The payloads of Payloads, each also with the empty selection ``, and
\* with each choice of a fragmentName property.
RegistrationPayloads ==
  { [ __typename |-> p.__typename, fragment |-> f, schema |-> p.schema,
      dependencies |-> p.dependencies, scope |-> p.scope, fragmentName |-> n ] :
      p \in Payloads, f \in {<<>>, <<"title">>}, n \in FragmentNameChoices }

\* One call createRegistration(payload); out keeps the payload and the
\* RegistrationStruct returned.
Create ==
  \E p \in RegistrationPayloads :
     /\ out' = [ op |-> "createRegistration", threw |-> FALSE, text |-> <<>>,
                 payload |-> p, value |-> createRegistration(p) ]
     /\ UNCHANGED <<components, handle, latest, given, val, other>>

NextRegistration == Create

SpecRegistration == Init /\ [][NextRegistration]_vars

(***************************************************************************)
(* What the claims speak of                                                *)
(***************************************************************************)

\* The registrations now in the registry.
Registered == Range(MapValues(components))

\* The registered components whose scope list names s.
InScope(s) == { c \in Registered : s \in Range(c.scope) }

\* The registered components a walk along `dependencies` reaches from the
\* set from, in any number of steps (from itself included).
RECURSIVE ReachableFrom(_)
ReachableFrom(from) ==
  LET more == { c \in Registered : \E f \in from : c.__typename \in Range(f.dependencies) }
  IN IF more \subseteq from THEN from ELSE ReachableFrom(from \cup more)

\* The places of text where a fragment definition starts.
DefinitionStarts(text) == { i \in DOMAIN text : text[i] = "fragment " }

\* The typename of the definition starting at i: the token after its " on ".
DefinitionTypename(text, i) ==
  LET j == CHOOSE j \in (i + 1)..Len(text) :
              /\ text[j] = " on "
              /\ \A k \in (i + 1)..(j - 1) : text[k] # " on "
  IN text[j + 1]

\* The definitions of text that are on typename t.
DefinitionsOn(text, t) ==
  { i \in DefinitionStarts(text) : DefinitionTypename(text, i) = t }

RECURSIVE LinesFrom(_, _, _)
\* text split at its "\n" tokens (no line for an empty text).
LinesFrom(text, i, line) ==
  IF i > Len(text) THEN <<line>>
  ELSE IF text[i] = "\n" THEN <<line>> \o LinesFrom(text, i + 1, <<>>)
  ELSE LinesFrom(text, i + 1, Append(line, text[i]))

Lines(text) == IF Len(text) = 0 THEN <<>> ELSE LinesFrom(text, 1, <<>>)

\* `...on <__typename> { ...<fragmentName> }` for the component c.
SelectionOf(c) == <<"...on ", c.__typename, " { ...">> \o c.fragmentName \o <<" }">>

FragmentsReturned == out.op = "fragments" /\ ~out.threw

(***************************************************************************)
(* C1: fragments() is dependency-closed: for every registry and scope s,   *)
(* the output of scope(s).fragments() contains the fragment of every       *)
(* component in scope s and of every registered component reachable from   *)
(* one along dependencies.                                                 *)
(***************************************************************************)
C1_DependencyClosed ==
  out.op = "fragments" =>
    /\ ~out.threw
    /\ \A c \in ReachableFrom(InScope(handle.scope)) : Contains(out.text, c.fragment)

\* What the code does give: the closure, whenever fragments() returns at all.
ClosedWhenReturned ==
  FragmentsReturned =>
    \A c \in ReachableFrom(InScope(handle.scope)) : Contains(out.text, c.fragment)

(***************************************************************************)
(* C2: fragments() is de-duplicated: its output has at most one fragment   *)
(* definition per __typename, also for a component reached along several   *)
(* paths, listed twice in one dependencies list, or both in scope and a    *)
(* dependency of a scoped component.                                       *)
(***************************************************************************)
C2_Deduplicated ==
  FragmentsReturned =>
    \A t \in Typenames : Cardinality(DefinitionsOn(out.text, t)) <= 1

\* Hero (in scope) lists Image and Text, Image (in scope too) lists Text
\* twice, all three are registered, and fragments() has returned.
C2_Witness ==
  /\ FragmentsReturned
  /\ handle.scope = "page"
  /\ \E h, i, t \in Registered :
        /\ h.__typename = "Hero" /\ h.dependencies = <<"Image", "Text">>
        /\ i.__typename = "Image" /\ i.dependencies = <<"Text", "Text">>
        /\ t.__typename = "Text"
        /\ {h, i} \subseteq InScope("page")
        /\ Cardinality(DefinitionsOn(out.text, "Text")) = 1

(***************************************************************************)
(* C6: query() has one line `...on <__typename> { ...<fragmentName> }`     *)
(* for each component in scope s, and no line for any other component.     *)
(***************************************************************************)
C6_QueryTopLevelOnly ==
  out.op = "query" =>
    LET lines == Lines(out.text)
    IN /\ \A c \in InScope(handle.scope) :
             Cardinality({ i \in DOMAIN lines : lines[i] = SelectionOf(c) }) = 1
       /\ \A i \in DOMAIN lines : \E c \in InScope(handle.scope) : lines[i] = SelectionOf(c)

\* Hero is in scope and depends on the registered Image, which is not.
C6_Witness ==
  /\ out.op = "query"
  /\ \E h, i \in Registered :
        /\ h.__typename = "Hero" /\ h \in InScope(handle.scope)
        /\ i.__typename = "Image" /\ i \notin InScope(handle.scope)
        /\ "Image" \in Range(h.dependencies)
  /\ Len(Lines(out.text)) = 1

(***************************************************************************)
(* C9: only top-level components need to be registered: fragments()        *)
(* includes the fragment of every dependency a registered top-level        *)
(* component declares, even of one never passed to register.               *)
(***************************************************************************)
C9_DependenciesPulledIn ==
  FragmentsReturned =>
    \A c \in InScope(handle.scope) :
       \A d \in Range(c.dependencies) : DefinitionsOn(out.text, d) # {}

(***************************************************************************)
(* C10: scope(s).components holds exactly the registered components whose  *)
(* scope list includes s.                                                  *)
(***************************************************************************)
C10_ScopeComponentsExact ==
  out.op = "scope" =>
    /\ MapKeys(handle.components) = { c.__typename : c \in InScope(handle.scope) }
    /\ \A c \in InScope(handle.scope) : MapGet(handle.components, c.__typename) = <<c>>

\* scope("article") with Hero listing page and article and depending on
\* Image, Image listing page only, Text listing nothing.
C10_Witness ==
  /\ out.op = "scope"
  /\ handle.scope = "article"
  /\ \E h, i, t \in Registered :
        /\ h.__typename = "Hero" /\ h.scope = <<"page", "article">>
        /\ "Image" \in Range(h.dependencies)
        /\ i.__typename = "Image" /\ i.scope = <<"page">>
        /\ t.__typename = "Text" /\ t.scope = <<>>
  /\ MapKeys(handle.components) = {"Hero"}

\* The registered component of typename t.
ComponentOf(t) == CHOOSE c \in Registered : c.__typename = t

\* The places of the records of data whose typename has a component in
\* scope s, in the order of data.
InScopeIndices(data, s) ==
  SelectSeq([ i \in DOMAIN data |-> i ],
            LAMBDA i : data[i].__typename \in { c.__typename : c \in InScope(s) })

\* The record is accepted by the schema registered for its typename.
Passes(record) == record.shape = ComponentOf(record.__typename).schema.accepts

AllSettled == \A k \in DOMAIN val.promises : val.promises[k].state # "pending"

(***************************************************************************)
(* C3: validate(data) drops the records of kinds that are not in the       *)
(* scope: when it resolves, the result has exactly one entry per record    *)
(* whose __typename is in the scope; it resolves whenever every in-scope   *)
(* record passes, to the empty list when there is no in-scope record.      *)
(***************************************************************************)
C3_DropsOutOfScope ==
  out.op = "validate" =>
    LET idx == InScopeIndices(val.data, handle.scope)
        allPass == \A k \in DOMAIN idx : Passes(val.data[idx[k]])
    IN /\ val.state = "fulfilled" =>
             /\ Len(val.value) = Len(idx)
             /\ \A k \in DOMAIN idx : val.value[k].input = val.data[idx[k]]
       /\ Len(idx) = 0 => val.state = "fulfilled" /\ val.value = <<>>
       /\ allPass => val.state # "rejected"
       /\ allPass /\ AllSettled => val.state = "fulfilled"

\* Resolved with one entry for a batch of a registered Image record out
\* of the scope followed by a passing Hero record in the scope.
C3_Witness ==
  /\ out.op = "validate"
  /\ val.state = "fulfilled"
  /\ handle.scope = "article"
  /\ Len(val.data) = 2
  /\ val.data[1].__typename = "Image" /\ "Image" \in MapKeys(components)
  /\ val.data[2].__typename = "Hero"
  /\ InScopeIndices(val.data, "article") = <<2>>
  /\ Len(val.value) = 1

(***************************************************************************)
(* C4: validate(data) fails on invalid records: if an in-scope record is   *)
(* rejected by its schema, validate rejects with the error of such a       *)
(* record's schema and never resolves to a list, wherever the record is    *)
(* and however many others pass.                                           *)
(***************************************************************************)
C4_FailsOnInvalid ==
  out.op = "validate" =>
    LET idx == InScopeIndices(val.data, handle.scope)
        failing == { k \in DOMAIN idx : ~Passes(val.data[idx[k]]) }
    IN failing # {} =>
         /\ val.state # "fulfilled"
         /\ AllSettled => val.state = "rejected"
         /\ val.state = "rejected" =>
              \E k \in failing :
                 val.value = << [ state |-> "rejected", kind |-> "ZodError",
                                  schema |-> ComponentOf(val.data[idx[k]].__typename).schema.name,
                                  input |-> val.data[idx[k]] ] >>

\* Rejected on the last record of the batch, after the first one passed.
C4_Witness ==
  /\ out.op = "validate"
  /\ val.state = "rejected"
  /\ Len(val.promises) = 2
  /\ val.promises[1].state = "fulfilled"
  /\ val.promises[2].state = "rejected"
  /\ val.value[1].input = val.data[2]

(***************************************************************************)
(* C5: validate(data) parses each in-scope record with the schema of the   *)
(* component registered under the record's own __typename, and the k-th    *)
(* entry of the result is the output for the k-th in-scope record.         *)
(***************************************************************************)
C5_CorrectSchema ==
  out.op = "validate" =>
    LET idx == InScopeIndices(val.data, handle.scope)
    IN /\ Len(val.promises) = Len(idx)
       /\ \A k \in DOMAIN idx :
             /\ val.promises[k].input = val.data[idx[k]]
             /\ val.promises[k].schema = ComponentOf(val.data[idx[k]].__typename).schema
       /\ val.state = "fulfilled" =>
             \A k \in DOMAIN idx :
                val.value[k] = [ state |-> "fulfilled", kind |-> "output",
                                 schema |-> ComponentOf(val.data[idx[k]].__typename).schema.name,
                                 input |-> val.data[idx[k]] ]

\* Resolved for an Image record followed by a Hero record, both in the
\* scope, registered in the other order and with different schemas.
C5_Witness ==
  /\ out.op = "validate"
  /\ val.state = "fulfilled"
  /\ Len(val.value) = 2
  /\ val.data[1].__typename = "Image" /\ val.data[2].__typename = "Hero"
  /\ MapValues(handle.components)[1].__typename = "Hero"
  /\ val.value[1].schema = <<"Image", 2>>
  /\ val.value[2].schema = <<"Hero", 1>>

\* text holds the whole of part from place i on.
HoldsAt(text, i, part) ==
  /\ i + Len(part) - 1 <= Len(text)
  /\ \A k \in 1..Len(part) : text[i + k - 1] = part[k]

C8_BothFragments ==
  FragmentsReturned /\ handle.scope = "page" =>
    \A t \in MapKeys(components) :
       \A name \in given[t] :
          Contains(out.text, <<"fragment ">> \o name \o <<" on ", t, " {">>)

\* createRegistration has returned for a payload without a fragmentName.
Generated == out.op = "createRegistration" /\ out.payload.fragmentName = <<>>

(***************************************************************************)
(* C11: createRegistration can override the fragment name: when the        *)
(* payload carries a fragmentName, the fragmentName of the registration    *)
(* returned is the one supplied, with or without dependencies supplied     *)
(* too, and not the generated <__typename>Fragment.                        *)
(***************************************************************************)
C11_FragmentNameOverride ==
  out.op = "createRegistration" /\ out.payload.fragmentName # <<>> =>
    out.value.fragmentName = out.payload.fragmentName[1]

(***************************************************************************)
(* C12: for every payload without a fragment-name override,                *)
(* createRegistration gives fragmentName = <__typename>Fragment and        *)
(* fragment = `fragment <fragmentName> on <__typename> {<selection>}`:     *)
(* the selection of the payload inside exactly one fragment definition,    *)
(* which starts with `fragment <__typename>Fragment on <__typename> {`.    *)
(***************************************************************************)
C12_GeneratedFragment ==
  Generated =>
    LET t == out.payload.__typename
        head == <<"fragment ", t, "Fragment", " on ", t, " {">>
        made == out.value.fragment
    IN /\ out.value.fragmentName = <<t, "Fragment">>
       /\ HoldsAt(made, 1, head)
       /\ Len(made) = Len(head) + Len(out.payload.fragment) + 1
       /\ HoldsAt(made, Len(head) + 1, out.payload.fragment)
       /\ made[Len(made)] = "}"
       /\ Cardinality(DefinitionStarts(made)) = 1

\* An Image payload with the selection `title`, one dependency and no
\* fragmentName has been made into a registration.
C12_Witness ==
  /\ Generated
  /\ out.payload.__typename = "Image"
  /\ out.payload.fragment = <<"title">>
  /\ out.payload.dependencies = << <<"Text">> >>
  /\ out.value.fragment = <<"fragment ", "Image", "Fragment", " on ", "Image", " {", "title", "}">>

(***************************************************************************)
(* C13: createRegistration fills the optional fields and keeps supplied    *)
(* ones: dependencies and scope of the result are the empty list when the  *)
(* payload leaves them out, and the supplied lists, element for element,   *)
(* when it gives them; __typename and schema pass through unchanged.       *)
(***************************************************************************)
C13_OptionalFields ==
  out.op = "createRegistration" =>
    LET p == out.payload
        r == out.value
    IN /\ p.dependencies = <<>> => r.dependencies = <<>>
       /\ p.dependencies # <<>> => r.dependencies = p.dependencies[1]
       /\ p.scope = <<>> => r.scope = <<>>
       /\ p.scope # <<>> => r.scope = p.scope[1]
       /\ r.__typename = p.__typename
       /\ r.schema = p.schema

\* A payload with two dependencies and two scopes has been made into a
\* registration that lists them in the same order.
C13_Witness ==
  /\ out.op = "createRegistration"
  /\ out.payload.dependencies = << <<"Image", "Text">> >>
  /\ out.payload.scope = << <<"page", "article">> >>
  /\ out.value.dependencies = <<"Image", "Text">>
  /\ out.value.scope = <<"page", "article">>

(***************************************************************************)
(* C14: register supports chaining and accumulates: it returns the pigeon  *)
(* instance it was called on, and after any chain of register calls        *)
(* components has an entry for the __typename of every component           *)
(* registered so far.                                                      *)
(***************************************************************************)
C14_RegisterAccumulates ==
  /\ out.op = "register" => out.returned = ThisPigeon
  /\ \A t \in Typenames : given[t] # {} => MapHas(components, t)

\* Image, then Hero, then Text have been registered in one chain.
C14_Witness ==
  /\ out.op = "register"
  /\ out.returned = ThisPigeon
  /\ [ i \in DOMAIN components |-> components[i].key ] = <<"Image", "Hero", "Text">>

\* The registered components that c lists as dependencies.
DependenciesOf(c) == { d \in Registered : d.__typename \in Range(c.dependencies) }

\* c depends on itself, directly or along other registered components.
OnCycle(c) == c \in ReachableFrom(DependenciesOf(c))

\* The dependency relation among the registered components has no cycle.
Acyclic == \A c \in Registered : ~OnCycle(c)

(***************************************************************************)
(* C15: scope(s).fragments() terminates for every registry, also when the  *)
(* dependencies form a cycle or a component lists its own __typename, and  *)
(* returns each fragment on the cycle once.                                *)
(***************************************************************************)
C15_TerminatesOnCycles ==
  out.op = "fragments" =>
    /\ ~out.threw
    /\ \A c \in ReachableFrom(InScope(handle.scope)) :
          OnCycle(c) => Cardinality(DefinitionsOn(out.text, c.__typename)) = 1

\* What the code does: fragments() throws exactly when a cycle can be
\* reached from the scope.
ThrowsExactlyOnCycles ==
  out.op = "fragments" =>
    (out.threw <=> \E c \in ReachableFrom(InScope(handle.scope)) : OnCycle(c))

(***************************************************************************)
(* C16: for every registry whose dependency relation among registered      *)
(* components is acyclic, fragments() terminates and returns a result,     *)
(* whatever the depth of the chains and however many paths lead to the     *)
(* same component.                                                         *)
(***************************************************************************)
C16_TerminatesWhenAcyclic ==
  out.op = "fragments" /\ Acyclic => ~out.threw

\* Only Hero is in the scope; it lists Image and Text, Image lists Text:
\* a chain of depth two and two paths to Text, and three definitions out.
C16_Witness ==
  /\ FragmentsReturned
  /\ Acyclic
  /\ \E h, i, t \in Registered :
        /\ h.__typename = "Hero" /\ h.dependencies = <<"Image", "Text">>
        /\ i.__typename = "Image" /\ i.dependencies = <<"Text">>
        /\ t.__typename = "Text" /\ t.dependencies = <<>>
        /\ InScope(handle.scope) = {h}
  /\ Cardinality(DefinitionStarts(out.text)) = 3

(***************************************************************************)
(* C19: fragments() emits nothing superfluous: every fragment definition   *)
(* in its output is the fragment of a component that is in scope s or      *)
(* reachable from one along registered dependencies; a registered          *)
(* component that is neither never appears.                                *)
(***************************************************************************)
C19_NothingSuperfluous ==
  FragmentsReturned =>
    /\ \A i \in DefinitionStarts(out.text) :
          \E c \in ReachableFrom(InScope(handle.scope)) : HoldsAt(out.text, i, c.fragment)
    /\ \A c \in Registered \ ReachableFrom(InScope(handle.scope)) :
          DefinitionsOn(out.text, c.__typename) = {}

\* Hero is in the scope and lists Image; Text is registered, lists Hero,
\* is in another scope only and is not reached: two definitions come out.
C19_Witness ==
  /\ FragmentsReturned
  /\ handle.scope = "article"
  /\ \E h, i, t \in Registered :
        /\ h.__typename = "Hero" /\ h.dependencies = <<"Image">>
        /\ h.scope = <<"page", "article">>
        /\ i.__typename = "Image" /\ i.dependencies = <<>>
        /\ t.__typename = "Text" /\ t.dependencies = <<"Hero">> /\ t.scope = <<"page">>
  /\ Cardinality(DefinitionStarts(out.text)) = 2
  /\ DefinitionsOn(out.text, "Text") = {}

(***************************************************************************)
(* C17: validate(data) preserves the input order under parallel            *)
(* validation: the resolved array lists the outputs of the in-scope        *)
(* records in the order of those records in the input, in whatever order   *)
(* the schema validations complete.                                        *)
(***************************************************************************)
C17_InputOrder ==
  out.op = "validate" /\ val.state = "fulfilled" =>
    LET idx == InScopeIndices(val.data, handle.scope)
    IN /\ Len(val.order) = Len(idx)
       /\ Len(val.value) = Len(idx)
       /\ \A k \in DOMAIN val.value :
             /\ val.value[k].kind = "output"
             /\ val.value[k].input = val.data[idx[k]]

\* A Hero record and then an Image record, both in the scope: the Image
\* validation completed first, and the result lists Hero first.
C17_Witness ==
  /\ out.op = "validate"
  /\ val.state = "fulfilled"
  /\ Len(val.data) = 2
  /\ val.data[1].__typename = "Hero" /\ val.data[2].__typename = "Image"
  /\ val.order = <<2, 1>>
  /\ val.value[1].input = val.data[1]
  /\ val.value[2].input = val.data[2]

(***************************************************************************)
(* C18: validate(data) invokes parseAsync exactly once per in-scope record *)
(* and never for an out-of-scope record, and all the invocations are       *)
(* started before any result is awaited: a failing record does not keep    *)
(* the validation of the other records from being started.                 *)
(***************************************************************************)
C18_OncePerInScopeRecord ==
  out.op = "validate" =>
    /\ \A r \in Records :
          Cardinality({ k \in DOMAIN val.promises : val.promises[k].input = r })
            = IF r.__typename \in { c.__typename : c \in InScope(handle.scope) }
              THEN Cardinality({ i \in DOMAIN val.data : val.data[i] = r })
              ELSE 0
    /\ \A k \in DOMAIN val.promises :
          Cardinality({ j \in DOMAIN val.order : val.order[j] = k })
            = IF val.promises[k].state = "pending" THEN 0 ELSE 1

\* The first of two in-scope records was rejected, validate() has rejected
\* with it, and the second record was parsed all the same, to the end.
C18_Witness ==
  /\ out.op = "validate"
  /\ val.state = "rejected"
  /\ Len(val.data) = 2
  /\ Len(val.promises) = 2
  /\ val.promises[1].state = "rejected"
  /\ val.promises[2].state = "fulfilled"
  /\ val.order = <<1, 2>>

\* The components that were registered with the scope of the handle when
\* scope() ran.
ScopedAtTaking ==
  { c \in Range(MapValues(handle.taken)) : handle.scope \in Range(c.scope) }

\* The one of them with typename t.
TakenOf(t) == CHOOSE c \in ScopedAtTaking : c.__typename = t

(***************************************************************************)
(* C20: a scope handle is a snapshot of the top-level set: register calls  *)
(* made after scope(s) returned (new components with scope s, or a         *)
(* re-registration of a scoped __typename) change neither the components   *)
(* of the handle, nor the output of its query(), nor which records its     *)
(* validate() retains and which schema it applies to them.                 *)
(***************************************************************************)
C20_HandleIsSnapshot ==
  handle.live =>
    /\ Range(MapValues(handle.components)) = ScopedAtTaking
    /\ out.op = "query" =>
          /\ Range(Lines(out.text)) = { SelectionOf(c) : c \in ScopedAtTaking }
          /\ Len(Lines(out.text)) = Cardinality(ScopedAtTaking)
    /\ out.op = "validate" =>
          LET kept == SelectSeq(val.data,
                                LAMBDA r : r.__typename \in { c.__typename : c \in ScopedAtTaking })
          IN /\ Len(val.promises) = Len(kept)
             /\ \A k \in DOMAIN kept :
                   /\ val.promises[k].input = kept[k]
                   /\ val.promises[k].schema = TakenOf(kept[k].__typename).schema

\* scope("page") was taken with the generated Hero alone; then an Image
\* with the scope "page" was registered and Hero was registered again by
\* hand with another schema; of a Hero and an Image record the handle
\* parsed the Hero record only, with the schema it had.
C20_Witness ==
  /\ out.op = "validate"
  /\ handle.scope = "page"
  /\ MapKeys(handle.taken) = {"Hero"}
  /\ MapKeys(handle.components) = {"Hero"}
  /\ \E h, i \in InScope("page") :
        /\ h.__typename = "Hero" /\ h.schema = SchemaOf("Hero", 2)
        /\ i.__typename = "Image"
  /\ Len(val.data) = 2
  /\ Len(val.promises) = 1
  /\ val.promises[1].schema = SchemaOf("Hero", 1)
  /\ val.state = "fulfilled"

(***************************************************************************)
(* C21: fragments() of an existing scope handle resolves dependencies      *)
(* against the registry as it is at the call, not as it was at scope():    *)
(* if a dependency of a scoped component is registered, or registered      *)
(* again, after scope(s) returned and before fragments() is called, the    *)
(* output contains the fragment of the registration current at the call.   *)
(***************************************************************************)
C21_LiveDependencies ==
  FragmentsReturned =>
    \A c \in Range(MapValues(handle.components)) :
       \A d \in Range(c.dependencies) :
          MapHas(components, d) /\ MapGet(components, d) # MapGet(handle.taken, d) =>
            Contains(out.text, MapGet(components, d)[1].fragment)

\* What the code does give: the current fragment of such a dependency,
\* unless the handle holds a component of that typename itself.
LiveUnlessScoped ==
  FragmentsReturned =>
    \A c \in Range(MapValues(handle.components)) :
       \A d \in Range(c.dependencies) :
          MapHas(components, d) /\ ~MapHas(handle.components, d) =>
            Contains(out.text, MapGet(components, d)[1].fragment)

\* The Map m with the typenames nobody registered taken out of every
\* dependencies list.
WithoutMissing(m) ==
  [ i \in DOMAIN m |->
      [ key |-> m[i].key,
        value |-> [ m[i].value EXCEPT
                      !.dependencies = SelectSeq(@, LAMBDA d : MapHas(components, d)) ] ] ]

\* Some component of the handle, or reached from it, lists a typename that
\* nobody registered.
MissingDependency ==
  \E c \in ReachableFrom(InScope(handle.scope)) :
     \E d \in Range(c.dependencies) : ~MapHas(components, d)

C23_DependencyFirst ==
  FragmentsReturned =>
    \A c \in ReachableFrom(InScope(handle.scope)) :
       \A d \in DependenciesOf(c) :
          \A i \in DefinitionsOn(out.text, d.__typename) :
             \A j \in DefinitionsOn(out.text, c.__typename) : i < j

(***************************************************************************)
(* C24: scope(), query(), fragments() and validate() are read-only with    *)
(* respect to the registry: after any of these calls (a validate call      *)
(* that rejects included) the components map and every registration in it  *)
(* are unchanged, and repeating query() or fragments() on the same handle  *)
(* with no register in between returns the identical string: what they     *)
(* return is fixed by the handle and the registry, which only scope() and  *)
(* register() change.                                                      *)
(***************************************************************************)
C24_ReadOnly ==
  [][ /\ out'.op # "register" => components' = components /\ latest' = latest
      /\ out'.op # "scope" => handle' = handle
      /\ out'.op = "query" => out'.text = QueryText(handle.components)
      /\ out'.op = "fragments" =>
            out'.text = FragmentsResult(components, handle.components).text ]_vars

\* A scope was taken of a registry of two components, and a batch through
\* it was rejected: the registry is still as it was when scope() ran.
C24_Witness ==
  /\ out.op = "validate"
  /\ val.state = "rejected"
  /\ AllSettled
  /\ Len(components) = 2
  /\ Len(handle.components) = 2
  /\ components = handle.taken

\* What the handle h of an instance with the registry comps returns: the
\* string of query(), the outcome of fragments(), and for each batch the
\* records validate() parses and the schemas it parses them with.
ResultsOf(comps, h) ==
  [ query |-> QueryText(h.components),
    fragments |-> FragmentsResult(comps, h.components),
    validate |-> [ data \in LiveBatches |-> ValidationPromises(h.components, data, 1, <<>>) ] ]

(***************************************************************************)
(* C25: multiple pigeon instances are independent: a register call on one  *)
(* instance created by createPigeon() never changes the components, the    *)
(* scopes, or the query(), fragments() and validate() results of another   *)
(* instance.                                                               *)
(***************************************************************************)
C25_InstancesIndependent ==
  [][ /\ out'.op = "register" /\ out'.returned = OtherPigeon =>
            /\ components' = components
            /\ handle' = handle
            /\ ResultsOf(components', handle') = ResultsOf(components, handle)
      /\ out'.op = "register" /\ out'.returned = ThisPigeon =>
            /\ other'.components = other.components
            /\ other'.handle = other.handle
            /\ ResultsOf(other'.components, other'.handle)
                 = ResultsOf(other.components, other.handle) ]_vars

\* The first instance holds Hero and Image and a handle on both; the
\* second one, made later, has just taken the Hero written by hand, and
\* the first one still returns its two fragments.
C25_Witness ==
  /\ other.made
  /\ out.op = "register" /\ out.returned = OtherPigeon
  /\ MapKeys(components) = {"Hero", "Image"}
  /\ MapKeys(handle.components) = {"Hero", "Image"}
  /\ ComponentOf("Hero").fragmentName = <<"Hero", "Fragment">>
  /\ MapKeys(other.components) = {"Hero"}
  /\ other.components[1].value.fragmentName = <<"Alt", "Hero">>
  /\ Cardinality(DefinitionStarts(ResultsOf(components, handle).fragments.text)) = 2

====
